---- MODULE Spec2Model ----
(***************************************************************************)
(* Traffic-graph construction and annotation pipeline of kiali:           *)
(* graph/api/api.go (request orchestration), the traffic-map builder and  *)
(* graph model, the appender pipeline with the health appender            *)
(* (graph/telemetry/istio/appender/health.go) and the namespace health    *)
(* service it queries (business/health.go).                               *)
(***************************************************************************)
EXTENDS Integers, Sequences, FiniteSets, TLC

VARIABLES
    pc,            \* position of the request in api.go / the builder
    req,           \* graph.Options of the request being served
    trafficMap,    \* graph.TrafficMap: node ID -> Node (owns its Edges)
    cursor,        \* number of samples of the query result already consumed
    appendersRun,  \* names of the appenders that have run, in order
    response,      \* what the caller receives: [code, config]
    promStore,     \* metrics store: the traffic samples of the window
    cluster,       \* cluster state: accessible namespaces, sidecar presence
    stages,        \* history: the stages entered, in order
    calls,         \* history: builder calls, metrics queries, health queries
    healthLog,     \* history: outcome of every health query of the request
    ctx,           \* the caller's request context: cancelled or not
    workers,       \* concurrently served requests: position and local variables
    heap,          \* the objects the concurrent requests allocated
    sessionStore,  \* SessionStore: the session persisted between HTTP requests
    oauthTokens,   \* the OAuth access tokens alive at the OpenShift API server
    terminated,    \* history: outcome of the last TerminateSession call
    namespaceStore,\* kialiCacheImpl.namespaceStore: namespacesKey -> namespaces
    clusterAccess, \* the clusters each user token may read namespaces of
    lookup,        \* history: outcome of the last GetClusterNamespace call
    clientEntries, \* clientFactory: the per-token clients and their expiry
    now,           \* the time, in units of the shortest expiry
    kube,          \* the cluster behind the ClientInterface: version per namespace
    informerCache, \* KialiCache: the version of each namespace it holds
    write,         \* history: outcome of the last write through the CachingClient
    fanout,        \* the business operation that fans out, and its inputs
    branchPc,      \* position of each goroutine of the fan-out
    failedFetch,   \* history: the branches whose fetch failed, with the error
    errChan,       \* the errors buffered in errChan, by sending branch
    wg,            \* sync.WaitGroup counter of the fan-out
    ret            \* what the operation returned to its caller

\* the state of the authentication controller, and of the namespace service
authVars == <<sessionStore, oauthTokens, terminated>>
nsVars == <<namespaceStore, clusterAccess, lookup>>

\* the state of the client factory, of the caching client, and of a fan-out
clientVars == <<clientEntries, now>>
cacheVars == <<kube, informerCache, write>>
fanVars == <<fanout, branchPc, failedFetch, errChan, wg, ret>>
restVars == <<clientVars, cacheVars, fanVars>>

\* the state of the graph requests
graphVars == <<pc, req, trafficMap, cursor, appendersRun, response, promStore,
               cluster, stages, calls, healthLog, ctx, workers, heap>>

vars == <<pc, req, trafficMap, cursor, appendersRun, response, promStore,
          cluster, stages, calls, healthLog, ctx, workers, heap,
          sessionStore, oauthTokens, terminated,
          namespaceStore, clusterAccess, lookup,
          clientEntries, now, kube, informerCache, write,
          fanout, branchPc, failedFetch, errChan, wg, ret>>

-----------------------------------------------------------------------------
(* Bounds *)

\* the number of samples a query window holds at most
MaxSamples == 2

\* the time up to which the client factory is followed
MaxTime == 4

\* the number of changes a namespace of the cluster goes through at most
MaxVersion == 2

-----------------------------------------------------------------------------
(* Graph model: graph package (types, NewNode, Id)                         *)

Unknown == "unknown"
NodeTypeApp == "app"
NodeTypeService == "service"
NodeTypeWorkload == "workload"
GraphTypeVersionedApp == "versionedApp"
GraphTypeWorkload == "workload"
VendorIstio == "istio"
VendorCytoscape == "cytoscape"
VendorCytoscapeGenerator == "cytoscape-generator"
DefaultClusterID == "Kubernetes"

\* metadata keys
IsInaccessible == "isInaccessible"
IsOutside == "isOutside"
HasMissingSC == "hasMissingSC"
HasHealthConfig == "hasHealthConfig"
HealthData == "healthData"
HealthDataApp == "healthDataApp"

Namespaces == {"ns1", "ns2"}
Protocols == {"http", "tcp"}
Rates == {5, 10}     \* requests per second, in tenths

IsOK(s) == s # "" /\ s # Unknown

Ident(ns, svc, wl, app, ver) ==
    [Cluster |-> DefaultClusterID, Namespace |-> ns, Service |-> svc,
     Workload |-> wl, App |-> app, Version |-> ver]

\* the mesh participants that show up in telemetry: a source carries no
\* service, a destination workload carries the service it was reached through
identA    == Ident("ns1", "", "A", Unknown, Unknown)   \* workload without app label
identAviaS == Ident("ns1", "S", "A", Unknown, Unknown) \* the same workload, as destination
identS    == Ident("ns1", "S", Unknown, Unknown, Unknown) \* service (no workload resolved)
identB    == Ident("ns2", "", "B", "b", "v1")          \* versioned app workload
identCviaS == Ident("ns1", "S", "C", Unknown, Unknown) \* a second workload behind S
identD    == Ident("ns1", "", "D", Unknown, Unknown)   \* a workload the cluster no longer defines
SourceIdents == {identA, identB}
DestIdents == {identAviaS, identS, identB}
Idents == SourceIdents \cup DestIdents

NodeTypeOf(i, graphType) ==
    IF graphType = GraphTypeWorkload
    THEN IF IsOK(i.Workload) THEN NodeTypeWorkload ELSE NodeTypeService
    ELSE IF IsOK(i.App) THEN NodeTypeApp
         ELSE IF IsOK(i.Workload) THEN NodeTypeWorkload ELSE NodeTypeService

Norm(s) == IF IsOK(s) THEN s ELSE Unknown

\* faulty variant: the key also carries the raw service of the telemetry sample
Id_WithService(i, graphType) ==
    LET t == NodeTypeOf(i, graphType) IN
    CASE t = NodeTypeService ->
           <<i.Cluster, i.Namespace, t, Unknown, Unknown, Unknown, Norm(i.Service)>>
      [] t = NodeTypeWorkload ->
           <<i.Cluster, i.Namespace, t, Unknown, Unknown, Norm(i.Workload), Norm(i.Service)>>
      [] OTHER ->
           <<i.Cluster, i.Namespace, t, Norm(i.App), Norm(i.Version), Norm(i.Workload),
             Norm(i.Service)>>

\* graph.Id: the canonical identity key
\* (cluster, namespace, kind, app, version, workload, service); the fields
\* that do not apply to the kind hold the sentinel.
Id(i, graphType) ==
    LET t == NodeTypeOf(i, graphType) IN
    CASE t = NodeTypeService ->
           <<i.Cluster, i.Namespace, t, Unknown, Unknown, Unknown, Norm(i.Service)>>
      [] t = NodeTypeWorkload ->
           <<i.Cluster, i.Namespace, t, Unknown, Unknown, Norm(i.Workload), Unknown>>
      [] OTHER ->
           <<i.Cluster, i.Namespace, t, Norm(i.App), Norm(i.Version), Norm(i.Workload), Unknown>>

EmptyMetadata == [k \in {} |-> TRUE]

HasFlag(md, k) == k \in DOMAIN md /\ md[k] = TRUE

\* graph.NewNode: the fields are those of the identity, the ones that do not
\* apply to the node's kind are blanked
NewNode(i, graphType) ==
    LET id == Id(i, graphType) IN
    [ID |-> id, Cluster |-> id[1], Namespace |-> id[2], NodeType |-> id[3],
     App |-> id[4], Version |-> id[5], Workload |-> id[6], Service |-> id[7],
     Metadata |-> EmptyMetadata, Edges |-> <<>>]

\* graph.NewTrafficMap
NewTrafficMap == [id \in {} |-> TRUE]

NoNode == [Cluster |-> "", Namespace |-> "", Service |-> "", Workload |-> "",
           App |-> "", Version |-> ""]

-----------------------------------------------------------------------------
(* Requests: graph.Options                                                 *)

NsLists == {<<>>, <<"ns1">>, <<"ns2">>, <<"ns1", "ns2">>}

Options ==
    [Kind: {"namespaces", "node"}, Namespaces: NsLists,
     TelemetryVendor: {VendorIstio, "other"},
     ConfigVendor: {VendorCytoscape, VendorCytoscapeGenerator, "other"},
     GraphType: {GraphTypeVersionedApp, GraphTypeWorkload},
     Node: {identA, identS, identB, NoNode}]

\* a namespaces request names no node; a node request names one, and its
\* path namespace is the node's namespace unless the query overrides it
WellFormed(o) ==
    IF o.Kind = "namespaces"
    THEN o.Node = NoNode /\ o.Namespaces \in {<<"ns1">>, <<"ns1", "ns2">>}
    ELSE /\ o.Node # NoNode
         /\ o.Namespaces \in {<<>>, <<o.Node.Namespace>>, <<"ns1", "ns2">>}

NoOptions ==
    [Kind |-> "none", Namespaces |-> <<>>, TelemetryVendor |-> "",
     ConfigVendor |-> "", GraphType |-> "", Node |-> NoNode]

InScope(ns, o) == \E k \in 1..Len(o.Namespaces) : o.Namespaces[k] = ns

-----------------------------------------------------------------------------
(* Traffic-map builder: graph/telemetry/istio (BuildNamespacesTrafficMap,  *)
(* BuildNodeTrafficMap)                                                    *)

Samples ==
    {s \in [src: SourceIdents, dst: DestIdents, protocol: Protocols, rate: Rates] :
        s.src.Workload # s.dst.Workload}

\* nodes outside the requested namespaces are kept and flagged
MarkOutside(n, o) ==
    IF InScope(n.Namespace, o) THEN n
    ELSE [n EXCEPT !.Metadata = (IsOutside :> TRUE) @@ @]

\* lookup-or-insert of the node of an identity
addNode(tm, i, o) ==
    LET id == Id(i, o.GraphType) IN
    IF id \in DOMAIN tm THEN tm
    ELSE (id :> MarkOutside(NewNode(i, o.GraphType), o)) @@ tm

NewEdge(sourceId, destId, protocol) ==
    [Source |-> sourceId, Dest |-> destId,
     Metadata |-> [protocol |-> protocol, rate |-> 0]]

EdgeIndexes(edges, destId, protocol) ==
    {k \in 1..Len(edges) :
        edges[k].Dest = destId /\ edges[k].Metadata.protocol = protocol}

\* faulty variant: every sample gets an edge of its own
addEdge_Always(edges, sourceId, destId, protocol) ==
    Append(edges, NewEdge(sourceId, destId, protocol))

\* the edge of (source, dest, protocol): the existing one, or a new one
addEdge(edges, sourceId, destId, protocol) ==
    IF EdgeIndexes(edges, destId, protocol) # {} THEN edges
    ELSE Append(edges, NewEdge(sourceId, destId, protocol))

\* aggregate the sample's rate into the edge of its triple
addToEdge(edges, sourceId, destId, protocol, rate) ==
    LET es == addEdge(edges, sourceId, destId, protocol)
        k  == CHOOSE x \in EdgeIndexes(es, destId, protocol) :
                 \A y \in EdgeIndexes(es, destId, protocol) : x <= y
    IN [es EXCEPT ![k].Metadata.rate = @ + rate]

\* faulty variant: the destination node is not inserted
addTraffic_NoDest(tm, s, o) ==
    LET sourceId == Id(s.src, o.GraphType)
        destId   == Id(s.dst, o.GraphType)
        tm2      == addNode(tm, s.src, o)
    IN [tm2 EXCEPT ![sourceId].Edges =
            addToEdge(@, sourceId, destId, s.protocol, s.rate)]

addTraffic(tm, s, o) ==
    LET sourceId == Id(s.src, o.GraphType)
        destId   == Id(s.dst, o.GraphType)
        tm2      == addNode(addNode(tm, s.src, o), s.dst, o)
    IN [tm2 EXCEPT ![sourceId].Edges =
            addToEdge(@, sourceId, destId, s.protocol, s.rate)]

\* a node graph keeps the traffic into and out of the requested node only
TouchesNode(s, o) ==
    Id(s.src, o.GraphType) = Id(o.Node, o.GraphType)
        \/ Id(s.dst, o.GraphType) = Id(o.Node, o.GraphType)

\* faulty variant: a node graph keeps every sample
Relevant_All(s, o) == TRUE

Relevant(s, o) == o.Kind = "namespaces" \/ TouchesNode(s, o)

-----------------------------------------------------------------------------
(* Errors: graph.Error, graph.CheckError and the handler's recovery        *)

StatusOK == 200

NilConfig == [vendor |-> "nil"]
NoResponse == [code |-> 0, config |-> NilConfig]

\* the status the panic of an error is answered with
ErrorCode(err) ==
    CASE err = "badrequest" -> 400
      [] err = "forbidden"  -> 403
      [] err = "notfound"   -> 404
      [] OTHER              -> 500

\* graph.Error / graph.CheckError(err) with err # nil: the request panics;
\* nothing after the call runs and no config is returned
Panic(err) ==
    /\ pc' = "panic"
    /\ response' = [code |-> ErrorCode(err), config |-> NilConfig]

-----------------------------------------------------------------------------
(* graph/api/api.go                                                        *)

\* faulty variant: only more than one namespace is refused
NodeScopeOK_AtMostOne(o) == Len(o.Namespaces) <= 1

\* api.go:53
NodeScopeOK(o) == Len(o.Namespaces) = 1

\* api.go:23-30, 61-68
TelemetryVendorOK(o) == o.TelemetryVendor = VendorIstio

Enter(o) ==
    /\ pc = "idle"
    /\ WellFormed(o)
    /\ req' = o
    /\ stages' = Append(stages, "ParseScope")
    /\ UNCHANGED <<trafficMap, cursor, appendersRun, promStore, cluster,
                   calls, healthLog>>
    /\ UNCHANGED <<ctx, workers, heap, authVars, nsVars, restVars>>

\* faulty variant: generateGraph is called without the builder having run
IstioEntry_GenerateFirst == "built"

\* graphNamespacesIstio / graphNodeIstio: the builder is called first, and
\* generateGraph with the map it returned
IstioEntry == "build"

\* switch o.TelemetryVendor: prometheus.NewClient, then graph...Istio
VendorSwitch(o) ==
    IF TelemetryVendorOK(o)
    THEN \E clientOK \in BOOLEAN :
            IF clientOK
            THEN pc' = IstioEntry /\ UNCHANGED response
            ELSE Panic("internal")
    ELSE Panic("badrequest")

\* GraphNamespaces
GraphNamespaces(o) ==
    /\ o.Kind = "namespaces"
    /\ Enter(o)
    /\ VendorSwitch(o)

\* GraphNode
GraphNode(o) ==
    /\ o.Kind = "node"
    /\ Enter(o)
    /\ IF ~NodeScopeOK(o) THEN Panic("badrequest") ELSE VendorSwitch(o)

-----------------------------------------------------------------------------
(* Builder steps                                                           *)

\* faulty variant: the builder goes on after a failed query
BuildQuery_IgnoreError ==
    /\ pc = "build"
    /\ stages' = Append(stages, "Build")
    /\ \E queryOK \in BOOLEAN :
          /\ calls' = [calls EXCEPT !.builder = @ + 1, !.metricsQueries = @ + 1,
                                   !.metricsFailed = IF queryOK THEN @ ELSE @ + 1]
          /\ pc' = "addTraffic"
          /\ trafficMap' = NewTrafficMap
          /\ cursor' = 0
          /\ UNCHANGED response
    /\ UNCHANGED <<req, appendersRun, promStore, cluster, healthLog>>
    /\ UNCHANGED <<ctx, workers, heap, authVars, nsVars, restVars>>

\* the builder is entered and issues its metrics query
BuildQuery ==
    /\ pc = "build"
    /\ stages' = Append(stages, "Build")
    /\ \E queryOK \in BOOLEAN :
          /\ calls' = [calls EXCEPT !.builder = @ + 1, !.metricsQueries = @ + 1,
                                   !.metricsFailed = IF queryOK THEN @ ELSE @ + 1]
          /\ IF queryOK
             THEN /\ pc' = "addTraffic"
                  /\ trafficMap' = NewTrafficMap
                  /\ cursor' = 0
                  /\ UNCHANGED response
             ELSE /\ Panic("unavailable")
                  /\ UNCHANGED <<trafficMap, cursor>>
    /\ UNCHANGED <<req, appendersRun, promStore, cluster, healthLog>>
    /\ UNCHANGED <<ctx, workers, heap, authVars, nsVars, restVars>>

\* one sample of the query result is turned into nodes and an edge
AddTraffic ==
    /\ pc = "addTraffic"
    /\ cursor < Len(promStore)
    /\ cursor' = cursor + 1
    /\ trafficMap' = IF Relevant(promStore[cursor + 1], req)
                     THEN addTraffic(trafficMap, promStore[cursor + 1], req)
                     ELSE trafficMap
    /\ UNCHANGED <<pc, req, appendersRun, response, promStore, cluster,
                   stages, calls, healthLog>>
    /\ UNCHANGED <<ctx, workers, heap, authVars, nsVars, restVars>>

\* all samples consumed: the map goes to the appenders
BuildDone ==
    /\ pc = "addTraffic"
    /\ cursor = Len(promStore)
    /\ pc' = "appenders"
    /\ stages' = Append(stages, "Annotate")
    /\ UNCHANGED <<req, trafficMap, cursor, appendersRun, response, promStore,
                   cluster, calls, healthLog>>
    /\ UNCHANGED <<ctx, workers, heap, authVars, nsVars, restVars>>

-----------------------------------------------------------------------------
(* Cluster state and the namespace health service: business/health.go      *)

\* castAppDetails: the app of a workload is its label of the configured name
\* (w.Labels[appLabel]); the workload may lack it although the telemetry of
\* the window reports an app for it
AppLabel(name, app) == IF name \in cluster.unlabelled THEN "" ELSE app

\* the workloads and services defined in the cluster
Workloads ==
    {[Name |-> "A", Namespace |-> "ns1", App |-> ""],
     [Name |-> "C", Namespace |-> "ns1", App |-> ""],
     [Name |-> "B", Namespace |-> "ns2", App |-> AppLabel("B", "b")]}
Services == {[Name |-> "S", Namespace |-> "ns1"]}

IstioSidecar(w) == w.Name \in cluster.sidecars

RECURSIVE TotalRate(_)
TotalRate(samples) ==
    IF samples = <<>> THEN 0
    ELSE Head(samples).rate + TotalRate(Tail(samples))

\* models.EmptyAppHealth / EmptyServiceHealth / EmptyWorkloadHealth
EmptyRequests == [inbound |-> 0, outbound |-> 0]
EmptyHealth == [Requests |-> EmptyRequests]

NilHealth == [name \in {} |-> EmptyHealth]

\* prom.GetAllRequestRates(namespace): traffic into or out of the namespace
AllRequestRates(ns) ==
    SelectSeq(promStore, LAMBDA s : s.src.Namespace = ns \/ s.dst.Namespace = ns)

\* prom.GetNamespaceServicesRequestRates(namespace)
ServicesRequestRates(ns) ==
    SelectSeq(promStore, LAMBDA s : s.dst.Namespace = ns)

\* fillAppRequestRates
fillAppRequestRates(allHealth, rates) ==
    [name \in DOMAIN allHealth |->
        [allHealth[name] EXCEPT !.Requests =
            [inbound  |-> TotalRate(SelectSeq(rates, LAMBDA s : s.dst.App = name)),
             outbound |-> TotalRate(SelectSeq(rates, LAMBDA s : s.src.App = name))]]]

\* fillWorkloadRequestRates
fillWorkloadRequestRates(allHealth, rates) ==
    [name \in DOMAIN allHealth |->
        [allHealth[name] EXCEPT !.Requests =
            [inbound  |-> TotalRate(SelectSeq(rates, LAMBDA s : s.dst.Workload = name)),
             outbound |-> TotalRate(SelectSeq(rates, LAMBDA s : s.src.Workload = name))]]]

\* getNamespaceAppHealth: business health service
getNamespaceAppHealth(ns, promOK) ==
    LET apps == {w.App : w \in {x \in Workloads : x.Namespace = ns /\ x.App # ""}}
        allHealth == [app \in apps |-> EmptyHealth]
        sidecarPresent ==
            \E w \in Workloads : w.Namespace = ns /\ w.App # "" /\ IstioSidecar(w)
    IN IF sidecarPresent
       THEN IF ~promOK
            THEN [health |-> allHealth, err |-> "unavailable", queried |-> TRUE]
            ELSE [health |-> fillAppRequestRates(allHealth, AllRequestRates(ns)),
                  err |-> "", queried |-> TRUE]
       ELSE [health |-> allHealth, err |-> "", queried |-> FALSE]

\* GetNamespaceAppHealth: business health service
GetNamespaceAppHealth(ns, k8sErr, promOK) ==
    IF k8sErr # "" THEN [health |-> NilHealth, err |-> k8sErr, queried |-> FALSE]
    ELSE getNamespaceAppHealth(ns, promOK)

\* getNamespaceServiceHealth: the query's error is dropped
getNamespaceServiceHealth(ns, promOK) ==
    LET svcs == {x.Name : x \in {y \in Services : y.Namespace = ns}}
        allHealth == [svc \in svcs |-> EmptyHealth]
        rates == IF promOK THEN ServicesRequestRates(ns) ELSE <<>>
    IN [name \in svcs |->
          [allHealth[name] EXCEPT !.Requests.inbound =
              TotalRate(SelectSeq(rates, LAMBDA s : s.dst.Service = name))]]

\* GetNamespaceServiceHealth: business health service
GetNamespaceServiceHealth(ns, k8sErr, promOK) ==
    IF k8sErr # "" THEN [health |-> NilHealth, err |-> k8sErr, queried |-> FALSE]
    ELSE [health |-> getNamespaceServiceHealth(ns, promOK), err |-> "",
          queried |-> TRUE]

\* getNamespaceWorkloadHealth: business health service
getNamespaceWorkloadHealth(ns, promOK) ==
    LET ws == {w \in Workloads : w.Namespace = ns}
        allHealth == [name \in {w.Name : w \in ws} |-> EmptyHealth]
        hasSidecar == \E w \in ws : IstioSidecar(w)
    IN IF hasSidecar
       THEN IF ~promOK
            THEN [health |-> allHealth, err |-> "unavailable", queried |-> TRUE]
            ELSE [health |-> fillWorkloadRequestRates(allHealth, AllRequestRates(ns)),
                  err |-> "", queried |-> TRUE]
       ELSE [health |-> allHealth, err |-> "", queried |-> FALSE]

\* GetNamespaceWorkloadHealth: business health service
GetNamespaceWorkloadHealth(ns, k8sErr, promOK) ==
    IF k8sErr # "" THEN [health |-> NilHealth, err |-> k8sErr, queried |-> FALSE]
    ELSE getNamespaceWorkloadHealth(ns, promOK)

-----------------------------------------------------------------------------
(* Appender pipeline                                                       *)

HealthAppenderName == "health"

\* the appenders in the order they are declared
DeclaredAppenders == <<HealthAppenderName, "namespaceAccess", "sidecarsCheck">>

\* faulty variant: the health appender declares itself a regular appender
HealthIsFinalizer_False == FALSE

\* HealthAppender.IsFinalizer
HealthIsFinalizer == TRUE

IsFinalizer(a) == IF a = HealthAppenderName THEN HealthIsFinalizer ELSE FALSE

\* the regular appenders in declared order, then the finalizers
Pipeline ==
    SelectSeq(DeclaredAppenders, LAMBDA a : ~IsFinalizer(a))
        \o SelectSeq(DeclaredAppenders, LAMBDA a : IsFinalizer(a))

SetMeta(n, k, v) == [n EXCEPT !.Metadata = (k :> v) @@ @]

\* flags the nodes of namespaces the caller cannot see
namespaceAccess(tm) ==
    [id \in DOMAIN tm |->
        IF tm[id].Namespace \notin cluster.accessible
        THEN SetMeta(tm[id], IsInaccessible, TRUE)
        ELSE tm[id]]

\* the workloads whose pods back a node: the workload of a workload node, the
\* workloads carrying the app label of an app node, none for a service node
NodeWorkloads(n) ==
    {w \in Workloads :
        /\ w.Namespace = n.Namespace
        /\ \/ n.NodeType = NodeTypeWorkload /\ w.Name = n.Workload
           \/ n.NodeType = NodeTypeApp /\ w.App = n.App}

\* faulty variant: the nodes of inaccessible namespaces are checked as well
sidecarsCheck_AnyNamespace(tm) ==
    [id \in DOMAIN tm |->
        IF \E w \in NodeWorkloads(tm[id]) : ~IstioSidecar(w)
        THEN SetMeta(tm[id], HasMissingSC, TRUE)
        ELSE tm[id]]

\* SidecarsCheckAppender: flags workload and app nodes whose pods lack the sidecar
sidecarsCheck(tm) ==
    [id \in DOMAIN tm |->
        IF /\ tm[id].Namespace \in cluster.accessible
           /\ \E w \in NodeWorkloads(tm[id]) : ~IstioSidecar(w)
        THEN SetMeta(tm[id], HasMissingSC, TRUE)
        ELSE tm[id]]

NextAppender == Pipeline[Len(appendersRun) + 1]

AfterAppender(run) == IF Len(run) = Len(Pipeline) THEN "built" ELSE "appenders"

RunRegular ==
    /\ pc = "appenders"
    /\ Len(appendersRun) < Len(Pipeline)
    /\ NextAppender # HealthAppenderName
    /\ trafficMap' = IF NextAppender = "namespaceAccess"
                     THEN namespaceAccess(trafficMap)
                     ELSE sidecarsCheck(trafficMap)
    /\ appendersRun' = Append(appendersRun, NextAppender)
    /\ pc' = AfterAppender(appendersRun')
    /\ UNCHANGED <<req, cursor, response, promStore, cluster, stages, calls,
                   healthLog>>
    /\ UNCHANGED <<ctx, workers, heap, authVars, nsVars, restVars>>

-----------------------------------------------------------------------------
(* graph/telemetry/istio/appender/health.go                                *)

NoData == [nodata |-> TRUE]     \* []int{}

\* getServiceDefinition / getWorkload: the definition's health annotations
HealthAnnotation == [annotations |-> {}]

\* attachHealthConfig: health.go:49-71
attachHealthConfig(tm) ==
    [id \in DOMAIN tm |->
        LET n == tm[id] IN
        IF HasFlag(n.Metadata, IsInaccessible) THEN n
        ELSE IF n.NodeType = NodeTypeService
                   /\ \E x \in Services : x.Namespace = n.Namespace /\ x.Name = n.Service
             THEN SetMeta(n, HasHealthConfig, HealthAnnotation)
        ELSE IF n.NodeType = NodeTypeWorkload
                   /\ \E w \in Workloads : w.Namespace = n.Namespace /\ w.Name = n.Workload
             THEN SetMeta(n, HasHealthConfig, HealthAnnotation)
        ELSE n]

\* faulty variant: the inaccessible nodes are grouped like the others
GroupNodes_All(tm, ns, kind) ==
    {id \in DOMAIN tm :
        /\ tm[id].Namespace = ns
        /\ \/ kind = tm[id].NodeType
           \/ kind = NodeTypeWorkload /\ tm[id].NodeType = NodeTypeApp
                 /\ IsOK(tm[id].Workload)}

\* healthReqs[namespace][kind]: health.go:74-109
GroupNodes(tm, ns, kind) ==
    {id \in DOMAIN tm :
        /\ ~HasFlag(tm[id].Metadata, IsInaccessible)
        /\ tm[id].Namespace = ns
        /\ \/ kind = NodeTypeApp /\ tm[id].NodeType = NodeTypeApp
           \/ kind = NodeTypeWorkload /\ tm[id].NodeType = NodeTypeApp
                 /\ IsOK(tm[id].Workload)
           \/ kind = NodeTypeWorkload /\ tm[id].NodeType = NodeTypeWorkload
           \/ kind = NodeTypeService /\ tm[id].NodeType = NodeTypeService}

HealthKinds == {NodeTypeApp, NodeTypeService, NodeTypeWorkload}

healthReqs(tm) ==
    {g \in Namespaces \X HealthKinds : GroupNodes(tm, g[1], g[2]) # {}}

HealthDone == {<<l.ns, l.kind>> : l \in healthLog}

\* the namespaces are visited one after the other, each with all its kinds
HealthPending ==
    LET left == healthReqs(trafficMap) \ HealthDone
        open == {g \in left : \E d \in HealthDone : d[1] = g[1]}
    IN IF open # {} THEN open ELSE left

\* health.go:125-137
attachAppHealth(tm, nodes, health) ==
    [id \in DOMAIN tm |->
        LET n == tm[id] IN
        IF id \notin nodes THEN n
        ELSE IF n.App \in DOMAIN health
             THEN IF IsOK(n.Workload)
                  THEN SetMeta(n, HealthDataApp, health[n.App])
                  ELSE SetMeta(n, HealthData, health[n.App])
             ELSE SetMeta(n, HealthData, NoData)]

\* health.go:142-149
attachServiceHealth(tm, nodes, health) ==
    [id \in DOMAIN tm |->
        LET n == tm[id] IN
        IF id \notin nodes THEN n
        ELSE IF n.Service \in DOMAIN health
             THEN SetMeta(n, HealthData, health[n.Service])
             ELSE SetMeta(n, HealthData, NoData)]

\* faulty variant: a node without entry gets a health sample without traffic
attachWorkloadHealth_ZeroForMissing(tm, nodes, health) ==
    [id \in DOMAIN tm |->
        LET n == tm[id] IN
        IF id \notin nodes THEN n
        ELSE IF n.Workload \in DOMAIN health
             THEN SetMeta(n, HealthData, health[n.Workload])
             ELSE SetMeta(n, HealthData, EmptyHealth)]

\* health.go:154-161
attachWorkloadHealth(tm, nodes, health) ==
    [id \in DOMAIN tm |->
        LET n == tm[id] IN
        IF id \notin nodes THEN n
        ELSE IF n.Workload \in DOMAIN health
             THEN SetMeta(n, HealthData, health[n.Workload])
             ELSE SetMeta(n, HealthData, NoData)]

\* a.RequestedDuration: the window the request asked for
RequestedDuration == "10m"

\* a.Namespaces[namespace].Duration: the window the namespace allows, shorter
\* than the requested one for a namespace younger than it
NamespaceDuration(ns) == IF ns = "ns1" THEN "5m" ELSE RequestedDuration

\* faulty variant: every fetch uses the requested window
HealthDuration_Requested(ns, o) == RequestedDuration

\* health.go:115-118: the window of the fetches of a namespace
HealthDuration(ns, o) ==
    IF InScope(ns, o) THEN NamespaceDuration(ns) ELSE RequestedDuration

\* bs.Health.GetNamespace<Kind>Health
GetNamespaceHealth(ns, kind, k8sErr, promOK) ==
    CASE kind = NodeTypeApp -> GetNamespaceAppHealth(ns, k8sErr, promOK)
      [] kind = NodeTypeService -> GetNamespaceServiceHealth(ns, k8sErr, promOK)
      [] OTHER -> GetNamespaceWorkloadHealth(ns, k8sErr, promOK)

attachKind(tm, kind, nodes, health) ==
    CASE kind = NodeTypeApp -> attachAppHealth(tm, nodes, health)
      [] kind = NodeTypeService -> attachServiceHealth(tm, nodes, health)
      [] OTHER -> attachWorkloadHealth(tm, nodes, health)

\* faulty variant: the error of a health fetch is ignored
HealthErrorAborts_Never(err) == FALSE

\* what attachHealth does with the error of a health fetch: graph.CheckError
HealthErrorAborts(err) == err # ""

\* faulty variant: AppendGraph without the check for an empty map
HealthAppendGraph_NoEmptyCheck ==
    /\ pc = "appenders"
    /\ Len(appendersRun) < Len(Pipeline)
    /\ NextAppender = HealthAppenderName
    /\ trafficMap' = attachHealthConfig(trafficMap)
    /\ pc' = "health"
    /\ calls' = [calls EXCEPT !.health = @ + 1]
    /\ UNCHANGED <<req, cursor, appendersRun, response, promStore, cluster,
                   stages, healthLog>>
    /\ UNCHANGED <<ctx, workers, heap, authVars, nsVars, restVars>>

\* AppendGraph: health.go:36-47, up to the first health fetch
HealthAppendGraph ==
    /\ pc = "appenders"
    /\ Len(appendersRun) < Len(Pipeline)
    /\ NextAppender = HealthAppenderName
    /\ IF DOMAIN trafficMap = {}
       THEN /\ appendersRun' = Append(appendersRun, HealthAppenderName)
            /\ pc' = AfterAppender(appendersRun')
            /\ UNCHANGED trafficMap
       ELSE /\ trafficMap' = attachHealthConfig(trafficMap)
            /\ pc' = "health"
            /\ UNCHANGED appendersRun
    /\ calls' = [calls EXCEPT !.health = @ + 1]
    /\ UNCHANGED <<req, cursor, response, promStore, cluster, stages, healthLog>>
    /\ UNCHANGED <<ctx, workers, heap, authVars, nsVars, restVars>>

\* attachHealth: one (namespace, kind) fetch and its distribution to the nodes
HealthFetch ==
    /\ pc = "health"
    /\ \E g \in HealthPending, k8sErr \in {"", "forbidden"}, promOK \in BOOLEAN :
          LET r == GetNamespaceHealth(g[1], g[2], k8sErr, promOK) IN
          /\ healthLog' = healthLog \cup
                {[ns |-> g[1], kind |-> g[2], err |-> r.err,
                  duration |-> HealthDuration(g[1], req),
                  nodes |-> GroupNodes(trafficMap, g[1], g[2]),
                  health |-> r.health,
                  failed |-> (k8sErr # "" \/ (r.queried /\ ~promOK))]}
          /\ IF HealthErrorAborts(r.err)
             THEN Panic(r.err) /\ UNCHANGED trafficMap
             ELSE /\ trafficMap' = attachKind(trafficMap, g[2],
                                      GroupNodes(trafficMap, g[1], g[2]), r.health)
                  /\ UNCHANGED <<pc, response>>
    /\ UNCHANGED <<req, cursor, appendersRun, promStore, cluster, stages, calls>>
    /\ UNCHANGED <<ctx, workers, heap, authVars, nsVars, restVars>>

\* attachHealth returns once every group is served
HealthReturn ==
    /\ pc = "health"
    /\ HealthPending = {}
    /\ appendersRun' = Append(appendersRun, HealthAppenderName)
    /\ pc' = AfterAppender(appendersRun')
    /\ UNCHANGED <<req, trafficMap, cursor, response, promStore, cluster, stages,
                   calls, healthLog>>
    /\ UNCHANGED <<ctx, workers, heap, authVars, nsVars, restVars>>

-----------------------------------------------------------------------------
(* Projection: cytoscape.NewConfig, and generateGraph of api.go            *)

\* a rate in tenths, printed with two decimals
FormatRate(r) == [int |-> r \div 10, frac |-> (r % 10) * 10]

NodeData(n) ==
    [id |-> n.ID, nodeType |-> n.NodeType, cluster |-> n.Cluster,
     namespace |-> n.Namespace, app |-> n.App, version |-> n.Version,
     workload |-> n.Workload, service |-> n.Service, metadata |-> n.Metadata]

EdgeData(e) ==
    [source |-> e.Source, target |-> e.Dest, protocol |-> e.Metadata.protocol,
     rate |-> FormatRate(e.Metadata.rate)]

EdgesOf(tm) ==
    UNION {{tm[id].Edges[k] : k \in 1..Len(tm[id].Edges)} : id \in DOMAIN tm}

NewConfig(tm) ==
    [vendor |-> VendorCytoscape,
     nodes |-> {NodeData(tm[id]) : id \in DOMAIN tm},
     edges |-> {EdgeData(e) : e \in EdgesOf(tm)}]

\* what Generate draws from outside the request: the random source it seeds
\* with the clock, and the clock itself
GeneratorSeeds == {"seed1", "seed2"}

\* generator.Generator{...}.Generate(): a synthetic document with random node
\* and edge ids, a random number of versions and the current time as timestamp
Generate(seed) == [vendor |-> VendorCytoscapeGenerator, seed |-> seed]

\* faulty variant: an unsupported config vendor falls through to the return
generateGraph_DefaultReturns ==
    /\ pc = "built"
    /\ stages' = Append(stages, "Project")
    /\ response' = [code |-> StatusOK,
                    config |-> IF req.ConfigVendor = VendorCytoscape
                               THEN NewConfig(trafficMap)
                               ELSE IF req.ConfigVendor = VendorCytoscapeGenerator
                               THEN Generate("seed1")
                               ELSE NilConfig]
    /\ pc' = "return"
    /\ UNCHANGED <<req, trafficMap, cursor, appendersRun, promStore, cluster,
                   calls, healthLog>>
    /\ UNCHANGED <<ctx, workers, heap, authVars, nsVars, restVars>>

\* generateGraph: api.go:88-112
generateGraph ==
    /\ pc = "built"
    /\ stages' = Append(stages, "Project")
    /\ IF req.ConfigVendor = VendorCytoscape
       THEN /\ response' = [code |-> StatusOK, config |-> NewConfig(trafficMap)]
            /\ pc' = "return"
       ELSE IF req.ConfigVendor = VendorCytoscapeGenerator
       THEN /\ \E seed \in GeneratorSeeds :
                    response' = [code |-> StatusOK, config |-> Generate(seed)]
            /\ pc' = "return"
       ELSE Panic("badrequest")
    /\ UNCHANGED <<req, trafficMap, cursor, appendersRun, promStore, cluster,
                   calls, healthLog>>
    /\ UNCHANGED <<ctx, workers, heap, authVars, nsVars, restVars>>

\* the handler answers the caller: the returned (code, config), or the
\* recovered panic
Respond ==
    /\ pc \in {"return", "panic"}
    /\ pc' = "done"
    /\ stages' = Append(stages, "Respond")
    /\ UNCHANGED <<req, trafficMap, cursor, appendersRun, response, promStore,
                   cluster, calls, healthLog>>
    /\ UNCHANGED <<ctx, workers, heap, authVars, nsVars, restVars>>

-----------------------------------------------------------------------------
(* OpenShift authentication: OpenshiftAuthController.TerminateSession      *)

\* the access tokens the OpenShift OAuth server issues
AccessTokens == {"tok1", "tok2", "tok3"}

\* what the SessionStore holds for the caller: nothing, a cookie that cannot
\* be read, or a session whose payload is an oauth2.Token
NoSessionStored == [state |-> "none", AccessToken |-> ""]

SessionStates ==
    {NoSessionStored, [state |-> "unreadable", AccessToken |-> ""]}
        \cup {[state |-> "stored", AccessToken |-> tok] : tok \in AccessTokens \cup {""}}

\* SessionStore.ReadSession(r, w, &sPayload): (sData, err) and the payload
ReadSession(store) ==
    IF store.state = "unreadable"
    THEN [err |-> TRUE, sData |-> FALSE, AccessToken |-> ""]
    ELSE IF store.state = "none"
         THEN [err |-> FALSE, sData |-> FALSE, AccessToken |-> ""]
         ELSE [err |-> FALSE, sData |-> TRUE, AccessToken |-> store.AccessToken]

\* how the DELETE of the oauthaccesstoken resource can end: the API server
\* answers 200, it answers another status, or client.Do fails
LogoutReplies == {"ok", "status", "transport"}

\* OpenshiftOAuthService.Logout(ctx, token): the error it returns, and the
\* tokens alive afterwards.  The API server answers 200 only for a token that
\* is alive and then deletes it; when client.Do fails the request may or may
\* not have been served.
Logout(tokens, token, reply, served) ==
    IF reply = "ok" /\ token \in tokens
    THEN [err |-> FALSE, tokens |-> tokens \ {token}]
    ELSE IF reply = "transport" /\ served
         THEN [err |-> TRUE, tokens |-> tokens \ {token}]
         ELSE [err |-> TRUE, tokens |-> tokens]

\* a nil error
NoError == [HttpStatus |-> 0, Message |-> ""]

TerminateSessionError(status, message) == [HttpStatus |-> status, Message |-> message]

\* what is recorded of a TerminateSession call: the error it returned, how its
\* Logout call went, and the session that was stored when it was called
Outcome(err, logout, before) == [err |-> err, logout |-> logout, before |-> before]

\* no TerminateSession call has returned since the session was created
NoCall == Outcome(NoError, "no call", NoSessionStored)

\* faulty variant: the session is cleared whatever Logout returned
SessionAfterLogout_Always(store, err) == NoSessionStored

\* err = Logout(...); if err != nil { return ... };
\* o.SessionStore.TerminateSession(r, w)
SessionAfterLogout(store, err) == IF err THEN store ELSE NoSessionStored

\* TerminateSession(r, w)
TerminateSession ==
    /\ LET s == ReadSession(sessionStore) IN
          IF s.err
          THEN /\ terminated' = Outcome(TerminateSessionError(401,
                                     "There is no active openshift session"),
                                 "not called", sessionStore)
               /\ UNCHANGED <<sessionStore, oauthTokens>>
          ELSE IF ~s.sData
          THEN /\ terminated' = Outcome(TerminateSessionError(500,
                                     "logout problem: no session exists."),
                                 "not called", sessionStore)
               /\ UNCHANGED <<sessionStore, oauthTokens>>
          ELSE IF s.AccessToken = ""
          THEN /\ terminated' = Outcome(TerminateSessionError(500,
                                     "Cannot logout: the Openshift token is absent from the session"),
                                 "not called", sessionStore)
               /\ UNCHANGED <<sessionStore, oauthTokens>>
          ELSE \E reply \in LogoutReplies, served \in BOOLEAN :
                  LET l == Logout(oauthTokens, s.AccessToken, reply, served) IN
                      /\ oauthTokens' = l.tokens
                      /\ sessionStore' = SessionAfterLogout(sessionStore, l.err)
                      /\ terminated' =
                            IF l.err
                            THEN Outcome(TerminateSessionError(500,
                                             "Could not log out of OpenShift"),
                                         "failed", sessionStore)
                            ELSE Outcome(NoError, "ok", sessionStore)
    /\ UNCHANGED <<graphVars, nsVars, restVars>>

\* GetAuthCallbackHandler: the code is exchanged for a token of the OAuth
\* server, and CreateSession stores it as the caller's session
AuthCallback ==
    /\ \E tok \in AccessTokens \ oauthTokens :
          /\ oauthTokens' = oauthTokens \cup {tok}
          /\ sessionStore' = [state |-> "stored", AccessToken |-> tok]
    /\ terminated' = NoCall
    /\ UNCHANGED <<graphVars, nsVars, restVars>>

\* the OAuth server expires or revokes a token on its own
TokenExpires ==
    /\ \E tok \in oauthTokens : oauthTokens' = oauthTokens \ {tok}
    /\ UNCHANGED <<sessionStore, terminated, graphVars, nsVars, restVars>>

-----------------------------------------------------------------------------
(* Namespace cache: kialiCacheImpl, and the namespace service over it      *)

Tokens == {"userA", "userB"}

Clusters == {"east", "west"}

\* the namespaces that exist in each cluster
ClusterNamespaces(c) ==
    IF c = "east" THEN {"bookinfo"} ELSE {"bookinfo", "istio-system"}

NamespaceNames == UNION {ClusterNamespaces(c) : c \in Clusters}

\* faulty variant: the key of a cache entry leaves the cluster out
namespacesKey_TokenOnly(c, token) == [cluster |-> "", token |-> token]

\* namespacesKey{cluster: cluster, token: token}
namespacesKey(c, token) == [cluster |-> c, token |-> token]

EmptyStore == [k \in {} |-> TRUE]

\* kialiCacheImpl.GetNamespace(token, namespace, cluster)
GetNamespace(store, token, namespace, c) ==
    LET key == namespacesKey(c, token) IN
        IF key \notin DOMAIN store
        THEN [found |-> FALSE, ns |-> [Name |-> "", Cluster |-> ""]]
        ELSE IF namespace \in DOMAIN store[key]
             THEN [found |-> TRUE, ns |-> store[key][namespace]]
             ELSE [found |-> FALSE, ns |-> [Name |-> "", Cluster |-> ""]]

\* kialiCacheImpl.SetNamespaces(cluster, token, namespaces): the entry of the
\* key is replaced by a map from each namespace's name to the namespace
SetNamespaces(store, c, token, namespaces) ==
    LET key == namespacesKey(c, token)
        ns == [name \in {n.Name : n \in namespaces} |->
                  CHOOSE n \in namespaces : n.Name = name]
    IN  [k \in DOMAIN store \cup {key} |-> IF k = key THEN ns ELSE store[k]]

\* the namespaces of a cluster as the user's client lists them
ListNamespaces(c) == {[Name |-> n, Cluster |-> c] : n \in ClusterNamespaces(c)}

\* kialiCacheImpl.RefreshTokenNamespaces()
RefreshTokenNamespaces ==
    /\ namespaceStore # EmptyStore
    /\ namespaceStore' = EmptyStore
    /\ UNCHANGED <<clusterAccess, lookup, graphVars, authVars, restVars>>

\* NamespaceService.GetClusterNamespaces(ctx, cluster): the user's client lists
\* the namespaces of the cluster and the list is cached for the user's token
GetClusterNamespaces ==
    /\ \E token \in Tokens, c \in Clusters :
          /\ c \in clusterAccess[token]
          /\ namespaceStore' = SetNamespaces(namespaceStore, c, token, ListNamespaces(c))
    /\ UNCHANGED <<clusterAccess, lookup, graphVars, authVars, restVars>>

NoLookup == [called |-> FALSE, token |-> "", namespace |-> "", cluster |-> "",
             err |-> "", ns |-> [Name |-> "", Cluster |-> ""]]

\* NamespaceService.GetClusterNamespace(ctx, namespace, cluster): the cache is
\* asked first, with the token of the user's client for that cluster; on a
\* miss the client fetches the namespace, and the cache is refreshed
GetClusterNamespace ==
    /\ \E token \in Tokens, namespace \in NamespaceNames, c \in Clusters :
          LET cached == GetNamespace(namespaceStore, token, namespace, c)
              result == [called |-> TRUE, token |-> token, namespace |-> namespace,
                         cluster |-> c, err |-> "", ns |-> cached.ns]
          IN  IF cached.found
              THEN /\ lookup' = result
                   /\ UNCHANGED namespaceStore
              ELSE IF c \notin clusterAccess[token]
              THEN /\ lookup' = [result EXCEPT !.err = "forbidden"]
                   /\ UNCHANGED namespaceStore
              ELSE IF namespace \notin ClusterNamespaces(c)
              THEN /\ lookup' = [result EXCEPT !.err = "not found"]
                   /\ UNCHANGED namespaceStore
              ELSE /\ lookup' = [result EXCEPT !.ns = [Name |-> namespace, Cluster |-> c]]
                   /\ namespaceStore' =
                          SetNamespaces(namespaceStore, c, token, ListNamespaces(c))
    /\ UNCHANGED <<clusterAccess, graphVars, authVars, restVars>>

-----------------------------------------------------------------------------
(* Idle values of the client factory, the caching client and the fan-outs  *)

NoClients == [token \in {} |-> TRUE]

NoWrite == [seq |-> 0, op |-> "", namespace |-> "", err |-> FALSE]

NoFanout == [op |-> "", branches |-> {}, capacity |-> 0, cached |-> FALSE]

NoBranches == [b \in {} |-> TRUE]

-----------------------------------------------------------------------------
(* Specifications                                                          *)

RECURSIVE SeqsUpTo(_, _)
SeqsUpTo(S, n) ==
    IF n = 0 THEN {<<>>}
    ELSE LET shorter == SeqsUpTo(S, n - 1) IN
         shorter \cup {Append(q, x) : q \in {r \in shorter : Len(r) = n - 1}, x \in S}

ClusterStates ==
    [accessible: {{"ns1", "ns2"}, {"ns1"}, {"ns2"}},
     sidecars: {{"A", "B"}, {"A"}, {}},
     unlabelled: {{}}]

\* the context of a request the caller has not cancelled
NotCancelled == [cancelled |-> FALSE, issued |-> 0]

\* no concurrent requests
NoWorkers == [w \in {} |-> TRUE]
EmptyHeap == [a \in {} |-> TRUE]

\* no per-token client exists
InitNoClients ==
    /\ clientEntries = NoClients
    /\ now = 0

\* the cache is in step with the cluster
InitNoWrites ==
    /\ kube = [ns \in NamespaceNames |-> 0]
    /\ informerCache = [ns \in NamespaceNames |-> 0]
    /\ write = NoWrite

\* no business operation is running
InitNoFanout ==
    /\ fanout = NoFanout
    /\ branchPc = NoBranches
    /\ failedFetch = {}
    /\ errChan = {}
    /\ wg = 0
    /\ ret = "none"

InitRest == InitNoClients /\ InitNoWrites /\ InitNoFanout

\* nobody is logged in and no namespace has been looked up
InitSessions ==
    /\ sessionStore = NoSessionStored
    /\ oauthTokens = {}
    /\ terminated = NoCall
    /\ namespaceStore = EmptyStore
    /\ clusterAccess = [token \in Tokens |-> Clusters]
    /\ lookup = NoLookup

InitServices == InitRest /\ InitSessions

InitCommon ==
    /\ InitServices
    /\ ctx = NotCancelled
    /\ workers = NoWorkers
    /\ heap = EmptyHeap
    /\ trafficMap = NewTrafficMap
    /\ cursor = 0
    /\ appendersRun = <<>>
    /\ response = NoResponse
    /\ calls = [builder |-> 0, metricsQueries |-> 0, metricsFailed |-> 0,
                health |-> 0]
    /\ healthLog = {}

\* the builder alone, over every query result up to MaxSamples samples
BuilderRequests ==
    {o \in Options : WellFormed(o) /\ TelemetryVendorOK(o)
                        /\ o.ConfigVendor = VendorCytoscape
                        /\ (o.Kind = "node" => NodeScopeOK(o))}

InitBuilder ==
    /\ InitCommon
    /\ pc = "build"
    /\ req \in BuilderRequests
    /\ stages = <<"ParseScope">>
    /\ promStore \in SeqsUpTo(Samples, MaxSamples)
    /\ cluster \in {[accessible |-> Namespaces, sidecars |-> {"A", "B"},
                     unlabelled |-> {}]}

NextBuilder == BuildQuery \/ AddTraffic \/ BuildDone

SpecBuilder == InitBuilder /\ [][NextBuilder]_vars

\* the whole request, over small query results
PipelineSamples == {s \in Samples : s.protocol = "http" /\ s.rate = 10}

PipelineOptions == {o \in Options : o.GraphType = GraphTypeVersionedApp}

Init ==
    /\ InitCommon
    /\ pc = "idle"
    /\ req = NoOptions
    /\ stages = <<>>
    /\ promStore \in SeqsUpTo(PipelineSamples, MaxSamples)
    /\ cluster \in ClusterStates

Next ==
    \/ \E o \in PipelineOptions : GraphNamespaces(o)
    \/ \E o \in PipelineOptions : GraphNode(o)
    \/ BuildQuery
    \/ AddTraffic
    \/ BuildDone
    \/ RunRegular
    \/ HealthAppendGraph
    \/ HealthFetch
    \/ HealthReturn
    \/ generateGraph
    \/ Respond

Spec == Init /\ [][Next]_vars

\* the whole request, over clusters whose workloads may have lost the app
\* label that the telemetry of the window reports
RelabelledClusterStates ==
    [accessible: {Namespaces},
     sidecars: {{"A", "B"}, {"A"}},
     unlabelled: {{}, {"B"}}]

InitRelabelled ==
    /\ InitCommon
    /\ pc = "idle"
    /\ req = NoOptions
    /\ stages = <<>>
    /\ promStore \in SeqsUpTo(PipelineSamples, MaxSamples)
    /\ cluster \in RelabelledClusterStates

SpecRelabelled == InitRelabelled /\ [][Next]_vars

\* the whole request, over windows in which a namespace holds several
\* workloads, one of them no longer defined in the cluster
GroupSamples ==
    {s \in [src: SourceIdents, dst: {identS, identCviaS, identD, identB},
            protocol: {"http"}, rate: {10}] :
        s.src.Workload # s.dst.Workload}

InitGroups ==
    /\ InitCommon
    /\ pc = "idle"
    /\ req = NoOptions
    /\ stages = <<>>
    /\ promStore \in SeqsUpTo(GroupSamples, MaxSamples)
    /\ cluster \in {[accessible |-> Namespaces, sidecars |-> {"A", "B", "C"},
                     unlabelled |-> {}]}

SpecGroups == InitGroups /\ [][Next]_vars

\* what the request has issued so far of the work of health.go and api.go:
\* health fetches and the projection
Issued ==
    Cardinality(healthLog)
        + (IF \E k \in 1..Len(stages) : stages[k] = "Project" THEN 1 ELSE 0)

\* the caller cancels the request, or its deadline elapses, while the request
\* is being served; GraphNamespaces and GraphNode take no context and none of
\* the steps reads one, so no step is affected
Cancel ==
    /\ pc \notin {"idle", "done"}
    /\ ~ctx.cancelled
    /\ ctx' = [cancelled |-> TRUE, issued |-> Issued]
    /\ UNCHANGED <<pc, req, trafficMap, cursor, appendersRun, response,
                   promStore, cluster, stages, calls, healthLog, workers, heap,
                   authVars, nsVars, restVars>>

\* the whole request with a caller that may cancel it, over query results of
\* at most one sample
InitCancel ==
    /\ InitCommon
    /\ pc = "idle"
    /\ req = NoOptions
    /\ stages = <<>>
    /\ promStore \in SeqsUpTo(PipelineSamples, 1)
    /\ cluster \in {[accessible |-> Namespaces, sidecars |-> {"A", "B"},
                     unlabelled |-> {}]}

NextCancel == Next \/ Cancel

SpecCancel == InitCancel /\ [][NextCancel]_vars

\* attachHealth calls a health operation that never returns: the call is
\* synchronous and made under no timeout, so the request stays in the call
HealthStuck ==
    /\ pc = "health"
    /\ HealthPending # {}
    /\ pc' = "blocked"
    /\ UNCHANGED <<req, trafficMap, cursor, appendersRun, response, promStore,
                   cluster, stages, calls, healthLog, ctx, workers, heap,
                   authVars, nsVars, restVars>>

\* the whole request with a collaborator that may never answer a health
\* fetch
NextStuck == Next \/ HealthStuck

SpecStuck == InitCancel /\ [][NextStuck]_vars

-----------------------------------------------------------------------------
(* Concurrent requests: the local variables of graphNamespacesIstio and    *)
(* graphNodeIstio, one execution per request                               *)

Workers == {1, 2}
NodeNames == {"a", "b"}
Nil == 0

\* a request being served: its query result, and the locals globalInfo,
\* trafficMap and config of graphNamespacesIstio / graphNodeIstio
IdleWorker(input) ==
    [pc |-> "start", input |-> input, globalInfo |-> Nil, trafficMap |-> Nil,
     config |-> {}]

\* a newly allocated object
FreshAddr(h) == Cardinality(DOMAIN h) + 1

\* faulty variant: one appender context for all requests
GlobalInfoAddr_Shared(h) == 100

\* graph.NewAppenderGlobalInfo(): a new object per call
GlobalInfoAddr(h) == FreshAddr(h)

\* faulty variant: the builder fills one traffic map for all requests
TrafficMapAddr_Shared(h) == 200

\* graph.NewTrafficMap() in the builder: a new map per call
TrafficMapAddr(h) == FreshAddr(h)

Alloc(h, a, obj) == IF a \in DOMAIN h THEN h ELSE (a :> obj) @@ h

\* globalInfo := graph.NewAppenderGlobalInfo(); globalInfo.Business = business
ReqNewAppenderGlobalInfo(w) ==
    /\ workers[w].pc = "start"
    /\ LET a == GlobalInfoAddr(heap) IN
          /\ heap' = [Alloc(heap, a, [kind |-> "globalInfo", business |-> "", nodes |-> {}])
                          EXCEPT ![a].business = "business"]
          /\ workers' = [workers EXCEPT ![w].globalInfo = a, ![w].pc = "build"]

\* the builder creates the traffic map of the request
ReqNewTrafficMap(w) ==
    /\ workers[w].pc = "build"
    /\ LET a == TrafficMapAddr(heap) IN
          /\ heap' = Alloc(heap, a, [kind |-> "trafficMap", business |-> "", nodes |-> {}])
          /\ workers' = [workers EXCEPT ![w].trafficMap = a, ![w].pc = "populate"]

NamesIn(a) == {n.name : n \in heap[a].nodes}

\* the builder inserts the node of one sample of the request's query result
ReqAddNode(w) ==
    /\ workers[w].pc = "populate"
    /\ \E name \in workers[w].input \ NamesIn(workers[w].trafficMap) :
          heap' = [heap EXCEPT ![workers[w].trafficMap].nodes =
                      @ \cup {[name |-> name, annotated |-> FALSE]}]
    /\ UNCHANGED workers

\* the builder runs the appenders on the request's map, with the request's
\* globalInfo, and returns the map
ReqAppend(w) ==
    /\ workers[w].pc = "populate"
    /\ workers[w].input \subseteq NamesIn(workers[w].trafficMap)
    /\ heap[workers[w].globalInfo].business = "business"
    /\ heap' = [heap EXCEPT ![workers[w].trafficMap].nodes =
                    {[n EXCEPT !.annotated = TRUE] : n \in @}]
    /\ workers' = [workers EXCEPT ![w].pc = "built"]

\* code, config = generateGraph(trafficMap, o)
ReqGenerateGraph(w) ==
    /\ workers[w].pc = "built"
    /\ workers' = [workers EXCEPT ![w].config = heap[workers[w].trafficMap].nodes,
                                  ![w].pc = "done"]
    /\ UNCHANGED heap

InitConcurrent ==
    /\ pc = "idle"
    /\ req = NoOptions
    /\ stages = <<>>
    /\ trafficMap = NewTrafficMap
    /\ cursor = 0
    /\ appendersRun = <<>>
    /\ response = NoResponse
    /\ calls = [builder |-> 0, metricsQueries |-> 0, metricsFailed |-> 0,
                health |-> 0]
    /\ healthLog = {}
    /\ ctx = NotCancelled
    /\ promStore = <<>>
    /\ cluster \in {[accessible |-> Namespaces, sidecars |-> {"A", "B"},
                     unlabelled |-> {}]}
    /\ workers \in [Workers -> {IdleWorker(i) : i \in SUBSET NodeNames}]
    /\ heap = EmptyHeap
    /\ InitServices

NextConcurrent ==
    /\ \E w \in Workers :
          \/ ReqNewAppenderGlobalInfo(w)
          \/ ReqNewTrafficMap(w)
          \/ ReqAddNode(w)
          \/ ReqAppend(w)
          \/ ReqGenerateGraph(w)
    /\ UNCHANGED <<pc, req, trafficMap, cursor, appendersRun, response, promStore,
                   cluster, stages, calls, healthLog, ctx, authVars, nsVars,
                   restVars>>

SpecConcurrent == InitConcurrent /\ [][NextConcurrent]_vars

\* no graph request is being served
InitNoRequest ==
    /\ pc = "idle"
    /\ req = NoOptions
    /\ stages = <<>>
    /\ trafficMap = NewTrafficMap
    /\ cursor = 0
    /\ appendersRun = <<>>
    /\ response = NoResponse
    /\ calls = [builder |-> 0, metricsQueries |-> 0, metricsFailed |-> 0,
                health |-> 0]
    /\ healthLog = {}
    /\ ctx = NotCancelled
    /\ promStore = <<>>
    /\ cluster \in {[accessible |-> Namespaces, sidecars |-> {"A", "B"},
                     unlabelled |-> {}]}
    /\ workers = NoWorkers
    /\ heap = EmptyHeap

\* logging in and out of OpenShift, from every session the store can hold
InitLogout ==
    /\ InitNoRequest
    /\ InitRest
    /\ sessionStore \in SessionStates
    /\ oauthTokens \in SUBSET AccessTokens
    /\ terminated = NoCall
    /\ namespaceStore = EmptyStore
    /\ clusterAccess = [token \in Tokens |-> Clusters]
    /\ lookup = NoLookup

NextLogout == TerminateSession \/ AuthCallback \/ TokenExpires

SpecLogout == InitLogout /\ [][NextLogout]_vars

\* namespace lookups of two users, for every assignment of clusters to them
InitNamespaces ==
    /\ InitNoRequest
    /\ InitRest
    /\ sessionStore = NoSessionStored
    /\ oauthTokens = {}
    /\ terminated = NoCall
    /\ namespaceStore = EmptyStore
    /\ clusterAccess \in [Tokens -> SUBSET Clusters]
    /\ lookup = NoLookup

NextNamespaces == GetClusterNamespaces \/ GetClusterNamespace \/ RefreshTokenNamespaces

SpecNamespaces == InitNamespaces /\ [][NextNamespaces]_vars

-----------------------------------------------------------------------------
(* Client factory: per-token clients that expire (kubernetes package)      *)

\* the tokens clients are created for, and the expiry durations, in units of
\* time
ClientTokens == {"foo-token", "bar-token", "baz-token"}

ExpirationTimes == {1, 2}

\* the time at which a client created at `created` with expiry d is recycled
ClientDue_Twice(created, d) == created + 2 * d

ClientDue(created, d) == created + d

Due(token) ==
    ClientDue(clientEntries[token].created, clientEntries[token].expiry)

\* getRecycleClient(authInfo, expirationTime, cluster): the client of the token
\* is created and stored, with a timer for its expiry, unless the factory
\* holds one already
getRecycleClient ==
    \E token \in ClientTokens \ DOMAIN clientEntries, d \in ExpirationTimes :
        /\ now + d <= MaxTime
        /\ clientEntries' =
              [t \in DOMAIN clientEntries \cup {token} |->
                  IF t = token THEN [created |-> now, expiry |-> d]
                  ELSE clientEntries[t]]
        /\ UNCHANGED <<now, cacheVars, fanVars, graphVars, authVars, nsVars>>

\* the timer of a client fires: the client is removed from the factory
recycleClient ==
    \E token \in DOMAIN clientEntries :
        /\ now >= Due(token)
        /\ clientEntries' =
              [t \in DOMAIN clientEntries \ {token} |-> clientEntries[t]]
        /\ UNCHANGED <<now, cacheVars, fanVars, graphVars, authVars, nsVars>>

\* time passes, once the timers that are due have fired
Tick ==
    /\ now < MaxTime
    /\ \A token \in DOMAIN clientEntries : now < Due(token)
    /\ now' = now + 1
    /\ UNCHANGED <<clientEntries, cacheVars, fanVars, graphVars, authVars,
                   nsVars>>

InitFactory ==
    /\ InitNoRequest
    /\ InitSessions
    /\ InitRest

NextFactory == getRecycleClient \/ recycleClient \/ Tick

\* timers fire and time passes
SpecFactory ==
    /\ InitFactory
    /\ [][NextFactory]_vars
    /\ WF_vars(recycleClient)
    /\ WF_vars(Tick)

-----------------------------------------------------------------------------
(* cache.CachingClient: writes go to the ClientInterface, then the cache   *)
(* is refreshed                                                            *)

\* KialiCache.Refresh(namespace): the cache reloads the namespace from the
\* cluster
Refresh(c, k, namespace) == [c EXCEPT ![namespace] = k[namespace]]

\* faulty variant: the cache is refreshed whatever the write returned
CacheAfterWrite_Always(c, k, namespace, err) == Refresh(c, k, namespace)

\* if err != nil { return err }; cc.cache.Refresh(namespace)
CacheAfterWrite(c, k, namespace, err) ==
    IF err THEN c ELSE Refresh(c, k, namespace)

\* a write of the ClientInterface: it fails and leaves the cluster as it is,
\* or it changes the namespace
ClientWrite(k, namespace, err) ==
    IF err THEN k ELSE [k EXCEPT ![namespace] = k[namespace] + 1]

\* the body the five writes share: the write of the embedded client, the
\* early return of its error, the refresh of the namespace
writeThrough(op, namespace, err) ==
    /\ err \/ kube[namespace] < MaxVersion
    /\ kube' = ClientWrite(kube, namespace, err)
    /\ informerCache' = CacheAfterWrite(informerCache, kube', namespace, err)
    /\ write' = [seq |-> 1 - write.seq, op |-> op, namespace |-> namespace,
                 err |-> err]

\* CachingClient.UpdateNamespace: after the refresh of the namespace the
\* namespaces cached per token are dropped too
UpdateNamespace ==
    /\ \E namespace \in NamespaceNames, err \in BOOLEAN :
          /\ writeThrough("UpdateNamespace", namespace, err)
          /\ namespaceStore' = IF err THEN namespaceStore ELSE EmptyStore
    /\ UNCHANGED <<clusterAccess, lookup, clientVars, fanVars, graphVars,
                   authVars>>

\* CachingClient.UpdateService
UpdateService ==
    /\ \E namespace \in NamespaceNames, err \in BOOLEAN :
          writeThrough("UpdateService", namespace, err)
    /\ UNCHANGED <<nsVars, clientVars, fanVars, graphVars, authVars>>

\* CachingClient.DeleteObject
DeleteObject ==
    /\ \E namespace \in NamespaceNames, err \in BOOLEAN :
          writeThrough("DeleteObject", namespace, err)
    /\ UNCHANGED <<nsVars, clientVars, fanVars, graphVars, authVars>>

\* CachingClient.PatchObject
PatchObject ==
    /\ \E namespace \in NamespaceNames, err \in BOOLEAN :
          writeThrough("PatchObject", namespace, err)
    /\ UNCHANGED <<nsVars, clientVars, fanVars, graphVars, authVars>>

\* CachingClient.CreateObject
CreateObject ==
    /\ \E namespace \in NamespaceNames, err \in BOOLEAN :
          writeThrough("CreateObject", namespace, err)
    /\ UNCHANGED <<nsVars, clientVars, fanVars, graphVars, authVars>>

\* the cluster is changed by somebody else; the cache has not seen it yet
ClusterChanges ==
    /\ \E namespace \in NamespaceNames :
          /\ kube[namespace] < MaxVersion
          /\ kube' = [kube EXCEPT ![namespace] = kube[namespace] + 1]
    /\ UNCHANGED <<informerCache, write, nsVars, clientVars, fanVars, graphVars,
                   authVars>>

InitCaching ==
    /\ InitNoRequest
    /\ InitSessions
    /\ InitRest

NextCaching ==
    \/ UpdateNamespace
    \/ UpdateService
    \/ DeleteObject
    \/ PatchObject
    \/ CreateObject
    \/ ClusterChanges
    \/ GetClusterNamespaces

SpecCaching == InitCaching /\ [][NextCaching]_vars

-----------------------------------------------------------------------------
(* Fan-out and join in the business layer: GetAllDestinationRules of       *)
(* tls.go and GetServiceDetails of services.go                             *)

\* the goroutines of GetServiceDetails; the first two are started only for a
\* service with a selector
SelectorBranches == {"pods", "workloads"}

DetailBranches ==
    {"registryEndpoints", "endpoints", "health", "nsmtls", "istioConfig",
     "permissions"}

\* what a fetch can return: "" for success, or an error
FetchErrors(op, cached, b) ==
    IF op = "GetServiceDetails" /\ b = "permissions" THEN {""}
    ELSE IF op = "GetServiceDetails" /\ b = "endpoints"
    THEN IF cached THEN {"", "forbidden", "error", "notfound"}
         ELSE {"", "error", "notfound"}
    ELSE {"", "error"}

\* whether the goroutine sends the error of its fetch to errChan: in the
\* endpoints goroutine the cached case assigns to the outer err, which is not
\* sent, and only err2 that is not NotFound is
SendsError(op, cached, b, e) ==
    /\ e # ""
    /\ (op = "GetServiceDetails" /\ b = "endpoints")
          => (~cached /\ e # "notfound")

\* GetAllDestinationRules(ctx, namespaces): errChan has room for one error,
\* one goroutine per namespace
GetAllDestinationRulesStart ==
    /\ fanout = NoFanout
    /\ \E namespaces \in SUBSET Namespaces :
          /\ fanout' = [op |-> "GetAllDestinationRules", branches |-> namespaces,
                        capacity |-> 1, cached |-> FALSE]
          /\ branchPc' = [b \in namespaces |-> "run"]
          /\ wg' = Cardinality(namespaces)
    /\ UNCHANGED <<failedFetch, errChan, ret, clientVars, cacheVars, graphVars,
                   authVars, nsVars>>

\* GetServiceDetails up to wg.Wait(): the access check and GetService return
\* their error; errChan has room for six errors; eight goroutines for a
\* service with a selector, six for one without
GetServiceDetailsStart ==
    /\ fanout = NoFanout
    /\ \E early \in {"", "forbidden", "notfound"}, selector \in BOOLEAN,
          cached \in BOOLEAN :
          LET branches == IF selector THEN SelectorBranches \cup DetailBranches
                          ELSE DetailBranches
          IN  IF early # ""
              THEN /\ fanout' = [op |-> "GetServiceDetails", branches |-> {},
                                 capacity |-> 0, cached |-> cached]
                   /\ ret' = "error"
                   /\ UNCHANGED <<branchPc, wg>>
              ELSE /\ fanout' = [op |-> "GetServiceDetails",
                                 branches |-> branches, capacity |-> 6,
                                 cached |-> cached]
                   /\ branchPc' = [b \in branches |-> "run"]
                   /\ wg' = Cardinality(branches)
                   /\ UNCHANGED ret
    /\ UNCHANGED <<failedFetch, errChan, clientVars, cacheVars, graphVars,
                   authVars, nsVars>>

\* a goroutine runs its fetch: with an error to report it goes on to the send
\* on errChan, otherwise it returns and its deferred wg.Done() runs
Fetch ==
    /\ \E b \in DOMAIN branchPc :
        \E e \in FetchErrors(fanout.op, fanout.cached, b) :
          /\ branchPc[b] = "run"
          /\ failedFetch' = IF e = "" THEN failedFetch
                            ELSE failedFetch \cup {[branch |-> b, err |-> e]}
          /\ IF SendsError(fanout.op, fanout.cached, b, e)
             THEN /\ branchPc' = [branchPc EXCEPT ![b] = "send"]
                  /\ UNCHANGED wg
             ELSE /\ branchPc' = [branchPc EXCEPT ![b] = "done"]
                  /\ wg' = wg - 1
    /\ UNCHANGED <<fanout, errChan, ret, clientVars, cacheVars, graphVars,
                   authVars, nsVars>>

\* errChan <- err: the send goes through while the buffer has room, nobody
\* receives before the join; then the goroutine returns and wg.Done() runs
Send ==
    /\ \E b \in DOMAIN branchPc :
          /\ branchPc[b] = "send"
          /\ Cardinality(errChan) < fanout.capacity
          /\ errChan' = errChan \cup {b}
          /\ branchPc' = [branchPc EXCEPT ![b] = "done"]
          /\ wg' = wg - 1
    /\ UNCHANGED <<fanout, failedFetch, ret, clientVars, cacheVars, graphVars,
                   authVars, nsVars>>

\* wg.Wait() returns: an error in errChan is returned, otherwise the result
\* is assembled from what the goroutines fetched
Join ==
    /\ fanout # NoFanout
    /\ ret = "none"
    /\ wg = 0
    /\ ret' = IF errChan # {} THEN "error" ELSE "result"
    /\ UNCHANGED <<fanout, branchPc, failedFetch, errChan, wg, clientVars,
                   cacheVars, graphVars, authVars, nsVars>>

InitFanout ==
    /\ InitNoRequest
    /\ InitSessions
    /\ InitRest

NextFanout ==
    \/ GetAllDestinationRulesStart
    \/ GetServiceDetailsStart
    \/ Fetch
    \/ Send
    \/ Join

\* every goroutine that can take a step is scheduled
SpecFanout == InitFanout /\ [][NextFanout]_vars /\ WF_vars(NextFanout)

-----------------------------------------------------------------------------
(* Properties                                                              *)

InStages(st) == \E k \in 1..Len(stages) : stages[k] = st

Ran(a) == \E k \in 1..Len(appendersRun) : appendersRun[k] = a

HasKey(n, k) == k \in DOMAIN n.Metadata

ErrorCodes == {400, 403, 404, 500}

\* C1: a node graph request whose scope does not name exactly one namespace
\* is answered with a 400 scope error and no config, and neither the builder
\* nor any metrics or health query is ever invoked for it.
C1_NodeScopeRejected ==
    (req.Kind = "node" /\ Len(req.Namespaces) # 1) =>
        /\ pc \in {"panic", "done"}
        /\ response = [code |-> 400, config |-> NilConfig]
        /\ calls.builder = 0
        /\ calls.metricsQueries = 0
        /\ calls.health = 0
        /\ ~InStages("Build")

C1_Witness ==
    /\ pc = "done"
    /\ req.Kind = "node"
    /\ Len(req.Namespaces) = 2
    /\ req.TelemetryVendor = VendorIstio
    /\ response.code = 400

\* C2 (as claimed): when the health query of a namespace fails, the request
\* is not aborted and ends with status 200, every node of that namespace (of
\* the kind queried) carries the "no data" health value, and the nodes of the
\* other namespaces keep the health their own queries returned.
C2_HealthFailureFallsBack ==
    \A l \in healthLog :
        (l.failed /\ l.err # "forbidden") =>
            /\ pc # "panic"
            /\ (pc = "done" /\ req.ConfigVendor # "other") => response.code = StatusOK
            /\ \A id \in GroupNodes(trafficMap, l.ns, l.kind) :
                  /\ HasKey(trafficMap[id], HealthData)
                  /\ trafficMap[id].Metadata[HealthData] = NoData
            /\ \A o \in healthLog :
                  (~o.failed /\ o.ns # l.ns) =>
                      \A id \in GroupNodes(trafficMap, o.ns, o.kind) :
                          \/ HasKey(trafficMap[id], HealthData)
                          \/ HasKey(trafficMap[id], HealthDataApp)

\* a complete document: the synthetic one, or one record per node and edge
\* of a map that was fully built and annotated
Complete(config) ==
    \/ config.vendor = VendorCytoscapeGenerator
    \/ /\ config.vendor = VendorCytoscape
       /\ {n.id : n \in config.nodes} = DOMAIN trafficMap
       /\ Cardinality(config.edges) = Cardinality(EdgesOf(trafficMap))
       /\ cursor = Len(promStore)
       /\ \A k \in 1..Len(DeclaredAppenders) : Ran(DeclaredAppenders[k])

StageFailed ==
    \/ req.TelemetryVendor # VendorIstio
    \/ req.ConfigVendor \notin {VendorCytoscape, VendorCytoscapeGenerator}
    \/ (req.Kind = "node" /\ Len(req.Namespaces) # 1)
    \/ calls.metricsFailed > 0
    \/ \E l \in healthLog : l.err # ""
    \/ ~InStages("Project")

\* C3: the caller receives either 200 with a complete document (every sample
\* built, every appender run, one record per node and edge of the map), or an
\* error code with no document; a request in which a stage failed is never
\* answered 200.
C3_CompleteOrError ==
    pc \in {"return", "panic", "done"} =>
        /\ \/ /\ response.code = StatusOK
              /\ response.config # NilConfig
              /\ Complete(response.config)
           \/ /\ response.code \in ErrorCodes
              /\ response.config = NilConfig
        /\ StageFailed => response.code # StatusOK

C3_Witness ==
    /\ pc = "done"
    /\ response.code = StatusOK
    /\ response.config.vendor = VendorCytoscape
    /\ Cardinality(response.config.nodes) = 3

Rank(st) ==
    CASE st = "ParseScope" -> 1
      [] st = "Build"      -> 2
      [] st = "Annotate"   -> 3
      [] st = "Project"    -> 4
      [] OTHER             -> 5

\* C4: the stages of a request occur in the order ParseScope, Build,
\* Annotate, Project, Respond, each at most once, and projection starts only
\* after the builder consumed the whole query result and every appender ran
\* without error.
C4_StageOrder ==
    /\ \A i, j \in 1..Len(stages) : i < j => Rank(stages[i]) < Rank(stages[j])
    /\ stages # <<>> => stages[1] = "ParseScope"
    /\ InStages("Annotate") => InStages("Build")
    /\ InStages("Project") =>
          /\ InStages("Build") /\ InStages("Annotate")
          /\ calls.builder = 1
          /\ calls.metricsFailed = 0
          /\ cursor = Len(promStore)
          /\ Len(appendersRun) = Len(DeclaredAppenders)
          /\ \A k \in 1..Len(DeclaredAppenders) : Ran(DeclaredAppenders[k])
          /\ \A l \in healthLog : l.err = ""

C4_Witness ==
    /\ pc = "done"
    /\ stages = <<"ParseScope", "Build", "Annotate", "Project", "Respond">>
    /\ DOMAIN trafficMap # {}

RegularAppenders == {"namespaceAccess", "sidecarsCheck"}

\* C5: the health finalizer runs at most once per request, after every regular
\* appender has completed, and it sees the inaccessible flag the regular
\* appender sets: no node of an inaccessible namespace ever gets health
\* configuration or health data.
C5_FinalizerAfterRegular ==
    /\ calls.health <= 1
    /\ calls.health = 1 => \A a \in RegularAppenders : Ran(a)
    /\ Ran(HealthAppenderName) =>
          appendersRun[Len(appendersRun)] = HealthAppenderName
    /\ pc \in {"built", "return"} => calls.health = 1
    /\ calls.health = 1 =>
          \A id \in DOMAIN trafficMap :
              trafficMap[id].Namespace \notin cluster.accessible =>
                  /\ HasFlag(trafficMap[id].Metadata, IsInaccessible)
                  /\ ~HasKey(trafficMap[id], HealthData)
                  /\ ~HasKey(trafficMap[id], HealthDataApp)
                  /\ ~HasKey(trafficMap[id], HasHealthConfig)

C5_Witness ==
    /\ pc = "built"
    /\ Ran(HealthAppenderName)
    /\ \E id \in DOMAIN trafficMap : HasFlag(trafficMap[id].Metadata, IsInaccessible)
    /\ \E id \in DOMAIN trafficMap : HasKey(trafficMap[id], HealthData)

\* the samples the builder has consumed so far, and those it keeps
Consumed == SubSeq(promStore, 1, cursor)
Kept == SelectSeq(Consumed, LAMBDA s : Relevant(s, req))
KeptSet == {Kept[k] : k \in 1..Len(Kept)}
Endpoints == {s.src : s \in KeptSet} \cup {s.dst : s \in KeptSet}

\* the nodes of the map that carry the identity of a telemetry endpoint:
\* cluster, namespace, kind and the fields that apply to the kind
NodesFor(i) ==
    LET t == NodeTypeOf(i, req.GraphType) IN
    {id \in DOMAIN trafficMap :
        LET n == trafficMap[id] IN
        /\ n.Cluster = i.Cluster /\ n.Namespace = i.Namespace /\ n.NodeType = t
        /\ t = NodeTypeService => n.Service = i.Service
        /\ t = NodeTypeWorkload => n.Workload = i.Workload
        /\ t = NodeTypeApp =>
              n.App = i.App /\ n.Version = i.Version /\ n.Workload = i.Workload}

\* C6: the traffic map holds exactly one node per distinct identity among the
\* samples built so far: an endpoint whose identity is present reuses its node.
C6_OneNodePerIdentity ==
    /\ \A i \in Endpoints : Cardinality(NodesFor(i)) = 1
    /\ \A id \in DOMAIN trafficMap :
          /\ trafficMap[id].ID = id
          /\ \E i \in Endpoints : id \in NodesFor(i)

C6_Witness ==
    /\ cursor = 2
    /\ promStore[1].src = identA
    /\ promStore[2].dst = identAviaS
    /\ Len(Kept) = 2
    /\ Cardinality(DOMAIN trafficMap) = 2

TripleOf(s) == <<Id(s.src, req.GraphType), Id(s.dst, req.GraphType), s.protocol>>

EdgesAt(t) ==
    IF t[1] \notin DOMAIN trafficMap THEN {}
    ELSE {k \in 1..Len(trafficMap[t[1]].Edges) :
            /\ trafficMap[t[1]].Edges[k].Dest = t[2]
            /\ trafficMap[t[1]].Edges[k].Metadata.protocol = t[3]}

\* C7: the traffic map holds exactly one edge per (source, target, protocol)
\* triple of the samples built so far, its rate is the sum of the rates of the
\* samples of that triple, and there is no other edge.
C7_OneEdgePerTriple ==
    /\ \A s \in KeptSet :
          LET t == TripleOf(s) IN
          /\ Cardinality(EdgesAt(t)) = 1
          /\ \A k \in EdgesAt(t) :
                trafficMap[t[1]].Edges[k].Metadata.rate =
                    TotalRate(SelectSeq(Kept, LAMBDA x : TripleOf(x) = t))
    /\ \A e \in EdgesOf(trafficMap) :
          \E s \in KeptSet : TripleOf(s) = <<e.Source, e.Dest, e.Metadata.protocol>>

C7_Witness ==
    /\ cursor = 2
    /\ Len(Kept) = 2
    /\ TripleOf(promStore[1]) = TripleOf(promStore[2])
    /\ promStore[1].rate = 10 /\ promStore[2].rate = 5
    /\ \E e \in EdgesOf(trafficMap) : e.Metadata.rate = 15
    /\ Cardinality(EdgesOf(trafficMap)) = 1

\* C8: the source and the target of every edge are nodes of the same map, and
\* an edge is owned by its source node.
C8_NoDanglingEdges ==
    \A id \in DOMAIN trafficMap :
        \A k \in 1..Len(trafficMap[id].Edges) :
            /\ trafficMap[id].Edges[k].Source = id
            /\ trafficMap[id].Edges[k].Dest \in DOMAIN trafficMap

C8_Witness ==
    /\ pc = "built"
    /\ Cardinality(EdgesOf(trafficMap)) = 2
    /\ Len(appendersRun) = Len(DeclaredAppenders)

\* the requested node of a node graph
Focal == Id(req.Node, req.GraphType)

\* C9: the map of a node graph holds only the requested node and the nodes
\* joined to it by an edge.
C9_NodeGraphNeighbours ==
    req.Kind = "node" =>
        \A id \in DOMAIN trafficMap :
            \/ id = Focal
            \/ \E e \in EdgesOf(trafficMap) :
                  \/ e.Source = Focal /\ e.Dest = id
                  \/ e.Source = id /\ e.Dest = Focal

C9_Witness ==
    /\ req.Kind = "node"
    /\ req.Node = identB
    /\ pc = "appenders"
    /\ cursor = 2
    /\ \E k \in 1..2 : promStore[k].src.Namespace = "ns1"
                          /\ promStore[k].dst.Namespace = "ns1"
    /\ Cardinality(DOMAIN trafficMap) = 2

\* C10: after a failed metrics query of the builder there is no traffic map,
\* no appender and no projection runs, and the request is answered with the
\* error and no config.
C10_BuilderFailureAborts ==
    calls.metricsFailed > 0 =>
        /\ pc \in {"panic", "done"}
        /\ trafficMap = NewTrafficMap
        /\ cursor = 0
        /\ appendersRun = <<>>
        /\ calls.health = 0
        /\ healthLog = {}
        /\ ~InStages("Annotate") /\ ~InStages("Project")
        /\ response = [code |-> 500, config |-> NilConfig]

C10_Witness ==
    /\ pc = "done"
    /\ calls.metricsFailed = 1
    /\ Len(promStore) = 2

\* the health fetches of the request whose namespace-access check failed
AccessFailures == {l \in healthLog : l.err = "forbidden"}

\* C11: a failed namespace-access check of a health fetch aborts the request
\* with the access error: the caller gets the error's status and no config,
\* and the failing fetch writes nothing (no fallback health) into the map.
C11_AccessFailureAborts ==
    /\ [](AccessFailures # {} =>
            /\ pc \in {"panic", "done"}
            /\ response = [code |-> ErrorCode("forbidden"), config |-> NilConfig]
            /\ ~InStages("Project"))
    /\ [][(AccessFailures' # AccessFailures) => trafficMap' = trafficMap]_vars

C11_Witness ==
    /\ pc = "done"
    /\ \E l \in AccessFailures : l.kind = NodeTypeService
    /\ response.code = 403

\* C12: an appender run on an empty traffic map is a no-op: the map stays
\* empty, and the health appender returns at once, without entering
\* attachHealthConfig or attachHealth, so it issues no configuration lookup
\* and no health fetch.
C12_EmptyMapNoOp ==
    /\ [][(pc = "appenders" /\ trafficMap = NewTrafficMap) =>
            /\ trafficMap' = NewTrafficMap
            /\ healthLog' = healthLog
            /\ pc' \in {"appenders", "built"}
            /\ Len(appendersRun') = Len(appendersRun) + 1]_vars
    /\ []((trafficMap = NewTrafficMap /\ Ran(HealthAppenderName)) => healthLog = {})

C12_Witness ==
    /\ pc = "built"
    /\ trafficMap = NewTrafficMap
    /\ Len(promStore) = 2
    /\ calls.health = 1
    /\ \A k \in 1..Len(DeclaredAppenders) : Ran(DeclaredAppenders[k])

\* the health fetches in one fixed order, and the annotations they leave when
\* they are distributed in that order with the responses the request got
CanonicalOrder ==
    <<<<"ns1", NodeTypeApp>>, <<"ns1", NodeTypeService>>, <<"ns1", NodeTypeWorkload>>,
      <<"ns2", NodeTypeApp>>, <<"ns2", NodeTypeService>>, <<"ns2", NodeTypeWorkload>>>>

StripHealth(tm) ==
    [id \in DOMAIN tm |->
        [tm[id] EXCEPT !.Metadata =
            [k \in DOMAIN @ \ {HealthData, HealthDataApp} |-> @[k]]]]

ResponseOf(g) ==
    LET l == CHOOSE x \in healthLog : x.ns = g[1] /\ x.kind = g[2]
    IN GetNamespaceHealth(g[1], g[2], "", ~l.failed).health

RECURSIVE ApplyGroups(_, _)
ApplyGroups(tm, groups) ==
    IF groups = <<>> THEN tm
    ELSE LET g == Head(groups) IN
         ApplyGroups(
            IF g \in HealthDone
            THEN attachKind(tm, g[2], GroupNodes(tm, g[1], g[2]), ResponseOf(g))
            ELSE tm,
            Tail(groups))

\* C13 (as claimed): the annotations the health appender leaves on the nodes
\* depend only on the map and on the collaborators' responses, not on the
\* order in which the map and the fetch groups are iterated: they are those
\* of the fetches distributed in any one fixed order.
C13_OrderIndependent ==
    (pc = "built" /\ Ran(HealthAppenderName)) =>
        trafficMap = ApplyGroups(StripHealth(trafficMap), CanonicalOrder)

\* the health appender has started to write health data into the map
HealthWritten ==
    \E id \in DOMAIN trafficMap :
        HasKey(trafficMap[id], HealthData) \/ HasKey(trafficMap[id], HealthDataApp)

\* C14 (as claimed): the health appender does not start to write health data
\* into the traffic map until every health fetch of the request (one per
\* namespace and kind) has returned.
C14_MutateAfterJoin ==
    HealthWritten => healthReqs(trafficMap) \subseteq HealthDone

\* C15 (as claimed): once the request context is cancelled the whole pipeline
\* is cancelled: no further health fetch is issued and the projection is not
\* started for that request.
C15_CancellationStopsPipeline ==
    ctx.cancelled => Issued = ctx.issued

\* C16 (as claimed): a health fetch that never returns does not block the
\* request for ever: while the request waits for it, a step is still possible
\* (the fetch times out, or the fetches of the other namespaces go on), so the
\* request can still complete or fail.
C16_StuckFetchDoesNotBlock ==
    (pc = "blocked" /\ healthReqs(trafficMap) \ HealthDone # {}) => ENABLED NextStuck

\* the objects a concurrent request holds in its local variables
Owned(w) == {workers[w].globalInfo, workers[w].trafficMap} \ {Nil}

ProjectionsOf(tm, o) ==
    IF o.ConfigVendor = VendorCytoscape THEN {NewConfig(tm)}
    ELSE IF o.ConfigVendor = VendorCytoscapeGenerator
         THEN {Generate(seed) : seed \in GeneratorSeeds}
         ELSE {}

C19_ClearOnlyAfterLogout ==
    terminated # NoCall =>
        /\ (sessionStore # terminated.before) =>
              /\ terminated.logout = "ok"
              /\ terminated.err = NoError
              /\ terminated.before.AccessToken \notin oauthTokens
              /\ sessionStore = NoSessionStored
        /\ (\/ terminated.before.state # "stored"
            \/ terminated.before.AccessToken = ""
            \/ terminated.logout = "failed") =>
              /\ terminated.err # NoError
              /\ sessionStore = terminated.before

C19_Witness ==
    /\ terminated.logout = "ok"
    /\ terminated.before.state = "stored"
    /\ sessionStore = NoSessionStored

\* C20: looking up a namespace in a cluster the user has no access to returns
\* an error, even when a namespace of the same name is cached for the user's
\* token from another cluster the user can access.
C20_ForbiddenDespiteCache ==
    (lookup.called /\ lookup.cluster \notin clusterAccess[lookup.token]) =>
        lookup.err # ""

C20_Witness ==
    /\ lookup.called
    /\ lookup.err = "forbidden"
    /\ \E c \in clusterAccess[lookup.token] :
          GetNamespace(namespaceStore, lookup.token, lookup.namespace, c).found

HealthKeys == {HasHealthConfig, HealthData, HealthDataApp}

\* C21: the health appender attaches neither health configuration nor health
\* data to a node flagged inaccessible, and such nodes cause no health query:
\* every query issued was for a group holding a node that is not inaccessible;
\* the nodes flagged outside the requested scope are processed like the
\* in-scope ones: once the appender has completed, every node that is not
\* inaccessible carries health data, outside or not.
C21_InaccessibleSkipped ==
    /\ \A id \in DOMAIN trafficMap :
          HasFlag(trafficMap[id].Metadata, IsInaccessible) =>
              DOMAIN trafficMap[id].Metadata \cap HealthKeys = {}
    /\ \A l \in healthLog : GroupNodes(trafficMap, l.ns, l.kind) # {}
    /\ Ran(HealthAppenderName) =>
          \A id \in DOMAIN trafficMap :
              ~HasFlag(trafficMap[id].Metadata, IsInaccessible) =>
                  HasKey(trafficMap[id], HealthData)

C21_Witness ==
    /\ Ran(HealthAppenderName)
    /\ \E id \in DOMAIN trafficMap :
          /\ HasFlag(trafficMap[id].Metadata, IsInaccessible)
          /\ ~HasKey(trafficMap[id], HealthData)
    /\ \E id \in DOMAIN trafficMap :
          /\ HasFlag(trafficMap[id].Metadata, IsOutside)
          /\ HasKey(trafficMap[id], HealthData)
          /\ trafficMap[id].Metadata[HealthData] # NoData

\* C22: for each (namespace, kind) group holding at least one node that needs
\* health the appender issues exactly one health query, for all the nodes of
\* the group at once, and the query uses the namespace's own window when the
\* namespace is in the requested scope and the requested window otherwise.
C22_OneBatchedQueryPerGroup ==
    /\ \A l \in healthLog :
          /\ l.nodes # {}
          /\ l.nodes = GroupNodes(trafficMap, l.ns, l.kind)
          /\ l.duration = IF InScope(l.ns, req) THEN NamespaceDuration(l.ns)
                          ELSE RequestedDuration
          /\ \A m \in healthLog : (m.ns = l.ns /\ m.kind = l.kind) => m = l
    /\ Ran(HealthAppenderName) => HealthDone = healthReqs(trafficMap)

C22_Witness ==
    /\ Ran(HealthAppenderName)
    /\ \E l \in healthLog : Cardinality(l.nodes) = 2 /\ l.duration # RequestedDuration
    /\ \E l \in healthLog : ~InScope(l.ns, req)

\* the name under which a node is looked up in the result of a kind
NameFor(n, kind) ==
    CASE kind = NodeTypeApp -> n.App
      [] kind = NodeTypeService -> n.Service
      [] OTHER -> n.Workload

\* the attribute that receives a node's entry of the result of a kind
KeyFor(n, kind) ==
    IF kind = NodeTypeApp /\ IsOK(n.Workload) THEN HealthDataApp ELSE HealthData

\* C23: when the result of a group's query has been distributed, every node
\* of the group whose app, service or workload name has an entry in the
\* result carries that entry, every node of the group without entry carries
\* the "no data" marker as its health data, and the marker differs from every
\* entry of the result, the entries without traffic included.
C23_EntryOrNoData ==
    [][\A l \in healthLog' \ healthLog :
          l.err = "" =>
              /\ \A id \in l.nodes :
                    LET n == trafficMap'[id]
                        name == NameFor(n, l.kind)
                    IN  IF name \in DOMAIN l.health
                        THEN /\ HasKey(n, KeyFor(n, l.kind))
                             /\ n.Metadata[KeyFor(n, l.kind)] = l.health[name]
                        ELSE /\ HasKey(n, HealthData)
                             /\ n.Metadata[HealthData] = NoData
              /\ \A name \in DOMAIN l.health : l.health[name] # NoData
              /\ EmptyHealth # NoData]_vars

C23_Witness ==
    /\ Ran(HealthAppenderName)
    /\ \E l \in healthLog :
          /\ l.kind = NodeTypeWorkload
          /\ \E id \in l.nodes :
                /\ trafficMap[id].Workload \notin DOMAIN l.health
                /\ trafficMap[id].Metadata[HealthData] = NoData
          /\ \E id \in l.nodes :
                /\ trafficMap[id].Workload \in DOMAIN l.health
                /\ trafficMap[id].Metadata[HealthData] = l.health[trafficMap[id].Workload]

VersionedApps ==
    {id \in DOMAIN trafficMap :
        /\ trafficMap[id].NodeType = NodeTypeApp
        /\ IsOK(trafficMap[id].Workload)
        /\ ~HasFlag(trafficMap[id].Metadata, IsInaccessible)}

\* C24 (as claimed): once the health appender has completed, every
\* versioned-app node that is not inaccessible was served by the App query and
\* by the Workload query of its namespace, its health data is the entry of
\* the workload result for its workload whenever that result has one, and the
\* entry of the app result, when there is one, is kept under the app-health
\* attribute.
C24_VersionedAppHealth ==
    Ran(HealthAppenderName) =>
        \A id \in VersionedApps :
            LET n == trafficMap[id] IN
            /\ \E l \in healthLog : l.kind = NodeTypeApp /\ id \in l.nodes
            /\ \E l \in healthLog : l.kind = NodeTypeWorkload /\ id \in l.nodes
            /\ \A l \in healthLog :
                  (l.kind = NodeTypeWorkload /\ id \in l.nodes
                      /\ n.Workload \in DOMAIN l.health) =>
                          /\ HasKey(n, HealthData)
                          /\ n.Metadata[HealthData] = l.health[n.Workload]
            /\ \A l \in healthLog :
                  (l.kind = NodeTypeApp /\ id \in l.nodes
                      /\ n.App \in DOMAIN l.health) =>
                          /\ HasKey(n, HealthDataApp)
                          /\ n.Metadata[HealthDataApp] = l.health[n.App]

\* C25: after the sidecars-check appender has run, a node carries the
\* missing-sidecar flag, set to true, if and only if it is a workload or app
\* node of an accessible namespace that has a pod and whose pods lack the
\* sidecar; service nodes, nodes of inaccessible namespaces, nodes without
\* pods and nodes whose pods all have the sidecar carry no such flag.
C25_MissingSidecarFlag ==
    Ran("sidecarsCheck") =>
        \A id \in DOMAIN trafficMap :
            LET n == trafficMap[id]
                pods == {w \in Workloads :
                            /\ w.Namespace = n.Namespace
                            /\ \/ n.NodeType = NodeTypeWorkload /\ w.Name = n.Workload
                               \/ n.NodeType = NodeTypeApp /\ w.App = n.App}
            IN  /\ HasKey(n, HasMissingSC) <=>
                      /\ n.NodeType \in {NodeTypeWorkload, NodeTypeApp}
                      /\ n.Namespace \in cluster.accessible
                      /\ pods # {}
                      /\ \E w \in pods : w.Name \notin cluster.sidecars
                /\ HasKey(n, HasMissingSC) => n.Metadata[HasMissingSC] = TRUE

C25_Witness ==
    /\ Ran("sidecarsCheck")
    /\ \E id \in DOMAIN trafficMap : HasFlag(trafficMap[id].Metadata, HasMissingSC)
    /\ \E id \in DOMAIN trafficMap :
          /\ trafficMap[id].NodeType = NodeTypeWorkload
          /\ trafficMap[id].Namespace \notin cluster.accessible
          /\ trafficMap[id].Workload \notin cluster.sidecars
          /\ ~HasKey(trafficMap[id], HasMissingSC)

\* C26: a per-token client created with expiry d is in the factory until d
\* has elapsed since its creation and not after, whatever other clients are
\* created meanwhile; once every expiry has elapsed the factory is empty
C26_ClientsExpire ==
    /\ [](\A token \in DOMAIN clientEntries :
            now <= clientEntries[token].created + clientEntries[token].expiry)
    /\ [][\A token \in DOMAIN clientEntries :
            now' < clientEntries[token].created + clientEntries[token].expiry
                => /\ token \in DOMAIN clientEntries'
                   /\ clientEntries'[token] = clientEntries[token]]_vars
    /\ \A token \in ClientTokens :
          (token \in DOMAIN clientEntries) ~> (token \notin DOMAIN clientEntries)
    /\ <>[](clientEntries = NoClients)

\* one client has expired and was removed while a later one remains
C26_Witness ==
    /\ DOMAIN clientEntries = {"bar-token"}
    /\ clientEntries["bar-token"].created > 0
    /\ now < clientEntries["bar-token"].created + clientEntries["bar-token"].expiry
    /\ now >= 2

\* C27: a write through the caching client that succeeded leaves the cache of
\* its namespace reloaded from the cluster and the other namespaces as they
\* were; a write that failed reports the error and leaves the whole cache,
\* the per-token namespaces included, as it was
C27_RefreshIffWritten ==
    [][write'.seq # write.seq =>
          IF write'.err
          THEN /\ informerCache' = informerCache
               /\ namespaceStore' = namespaceStore
          ELSE /\ informerCache'[write'.namespace] = kube'[write'.namespace]
               /\ informerCache'[write'.namespace]
                      # informerCache[write'.namespace]
               /\ \A ns \in NamespaceNames \ {write'.namespace} :
                      informerCache'[ns] = informerCache[ns]]_vars

\* a write failed while the cache was behind the cluster, and the cache is
\* still behind
C27_Witness ==
    /\ write.seq = 1
    /\ write.err
    /\ write.op = "DeleteObject"
    /\ informerCache[write.namespace] < kube[write.namespace]
    /\ namespaceStore # EmptyStore

\* C28: every fan-out that was started returns to its caller, whichever of
\* its branches fail
C28_JoinReturns == (fanout # NoFanout) ~> (ret # "none")

\* C30: GetServiceDetails returns service details only if none of its
\* fetches failed with an error other than endpoints not found
C30_NoDetailsFromFailedFetch ==
    (fanout.op = "GetServiceDetails" /\ ret = "result")
        => \A f \in failedFetch : f.branch = "endpoints" /\ f.err = "notfound"

\* C29: a namespace health operation (app, service or workload) whose metrics
\* query failed returns an error to its caller, never a result
C29_MetricsFailureReported ==
    \A l \in healthLog :
        (l.failed /\ l.kind \in {NodeTypeApp, NodeTypeService, NodeTypeWorkload})
            => l.err # ""

====
